---------------------------- MODULE Spec2Model ----------------------------
(***************************************************************************)
(* A model of go-sympy (src/sympy.go): the expression tree, its printer,   *)
(* the rule-based simplifier, differentiation, substitution, SimplifyDeep  *)
(* and the recursive-descent parser, driven by a caller that builds        *)
(* expressions with the constructors and applies the operations to them.   *)
(*                                                                         *)
(* Text is a sequence of one-character strings.  float64 values are        *)
(* modelled exactly on the domain described at Fin below; a value outside  *)
(* that domain is Unrep, and the caller never builds an expression whose   *)
(* constant folding leaves the domain (see Computable).                    *)
(***************************************************************************)
EXTENDS Integers, Sequences, FiniteSets, TLC

(***************************************************************************)
(* Bounds of the model.                                                    *)
(***************************************************************************)
MaxNum == 2        \* the caller's numeric leaves are Number(0) .. Number(MaxNum)
MaxDepth == 2      \* the caller nests constructors at most this deep
ExactCap == 4096   \* largest numerator of a float the model computes exactly
MaxPasses == 3     \* SimplifyDeep passes the model follows

(***************************************************************************)
(* float64.  A finite value is sign * n / d with d a power of two (so the  *)
(* float is exact and every operation below is exact, as IEEE-754 rounds   *)
(* an exactly representable result to itself); zero is signed.             *)
(***************************************************************************)
Fin(s, n, d) == [s |-> s, n |-> n, d |-> d, t |-> "fin"]
Inf(s) == [s |-> s, n |-> 0, d |-> 0, t |-> "inf"]
NaN == [s |-> 1, n |-> 0, d |-> 0, t |-> "nan"]
Unrep == [s |-> 1, n |-> 0, d |-> 0, t |-> "unrep"]
Zero == Fin(1, 0, 1)
One == Fin(1, 1, 1)
Int2F(i) == IF i < 0 THEN Fin(-1, -i, 1) ELSE Fin(1, i, 1)

Dens == {1, 2, 4, 8, 16}

RECURSIVE GCD(_, _)
GCD(a, b) == IF b = 0 THEN a ELSE GCD(b, a % b)

\* The float sign * n / d (n >= 0, d > 0), or Unrep outside the exact domain.
MkFin(s, n, d) ==
  IF n = 0 THEN Fin(s, 0, 1)
  ELSE LET g == GCD(n, d)
           nn == n \div g
           dd == d \div g
       IN IF dd \in Dens /\ nn <= ExactCap THEN Fin(s, nn, dd) ELSE Unrep

IsZeroF(v) == v.t = "fin" /\ v.n = 0                       \* v == 0
IsOneF(v) == v.t = "fin" /\ v.s = 1 /\ v.n = 1 /\ v.d = 1  \* v == 1
IsPosF(v) == (v.t = "fin" /\ v.s = 1 /\ v.n > 0) \/ (v.t = "inf" /\ v.s = 1)  \* v > 0
IsNonNegF(v) == (v.t = "fin" /\ (v.s = 1 \/ v.n = 0)) \/ (v.t = "inf" /\ v.s = 1)  \* v >= 0
IsIntF(v) == v.t = "fin" /\ v.d = 1
IsOddIntF(v) == IsIntF(v) /\ v.n % 2 = 1

FNeg(v) == IF v.t \in {"fin", "inf"} THEN [v EXCEPT !.s = -v.s] ELSE v

FAdd(a, b) ==
  IF a.t = "unrep" \/ b.t = "unrep" THEN Unrep
  ELSE IF a.t = "nan" \/ b.t = "nan" THEN NaN
  ELSE IF a.t = "inf" THEN (IF b.t = "inf" /\ b.s # a.s THEN NaN ELSE a)
  ELSE IF b.t = "inf" THEN b
  ELSE LET num == a.s * a.n * b.d + b.s * b.n * a.d
       IN IF num = 0
          THEN Fin(IF a.s = -1 /\ b.s = -1 THEN -1 ELSE 1, 0, 1)
          ELSE MkFin(IF num < 0 THEN -1 ELSE 1, IF num < 0 THEN -num ELSE num, a.d * b.d)

FSub(a, b) == FAdd(a, FNeg(b))

FMul(a, b) ==
  IF a.t = "unrep" \/ b.t = "unrep" THEN Unrep
  ELSE IF a.t = "nan" \/ b.t = "nan" THEN NaN
  ELSE IF a.t = "inf" \/ b.t = "inf"
       THEN (IF IsZeroF(a) \/ IsZeroF(b) THEN NaN ELSE Inf(a.s * b.s))
  ELSE MkFin(a.s * b.s, a.n * b.n, a.d * b.d)

FDiv(a, b) ==
  IF a.t = "unrep" \/ b.t = "unrep" THEN Unrep
  ELSE IF a.t = "nan" \/ b.t = "nan" THEN NaN
  ELSE IF a.t = "inf" THEN (IF b.t = "inf" THEN NaN ELSE Inf(a.s * b.s))
  ELSE IF b.t = "inf" THEN Fin(a.s * b.s, 0, 1)
  ELSE IF IsZeroF(b) THEN (IF IsZeroF(a) THEN NaN ELSE Inf(a.s * b.s))
  ELSE MkFin(a.s * b.s, a.n * b.d, a.d * b.n)

RECURSIVE ISqrt(_, _)
ISqrt(n, r) == IF r * r >= n THEN r ELSE ISqrt(n, r + 1)

\* math.Sqrt
FSqrt(v) ==
  IF v.t \in {"unrep", "nan"} THEN v
  ELSE IF v.t = "inf" THEN (IF v.s = 1 THEN v ELSE NaN)
  ELSE IF v.n = 0 THEN v
  ELSE IF v.s = -1 THEN NaN
  ELSE LET rn == ISqrt(v.n, 0)
           rd == ISqrt(v.d, 0)
       IN IF rn * rn = v.n /\ rd * rd = v.d THEN Fin(1, rn, rd) ELSE Unrep

RECURSIVE PowAcc(_, _, _)
PowAcc(acc, x, k) ==
  IF k = 0 \/ acc.t = "unrep" THEN acc ELSE PowAcc(FMul(acc, x), x, k - 1)

\* math.Pow, by the special cases its documentation lists, in its order.
FPow(x, y) ==
  IF x.t = "unrep" \/ y.t = "unrep" THEN Unrep
  ELSE IF IsZeroF(y) \/ IsOneF(x) THEN One
  ELSE IF IsOneF(y) THEN x
  ELSE IF x.t = "nan" \/ y.t = "nan" THEN NaN
  ELSE IF IsZeroF(x) THEN
       (IF y.t = "inf" THEN (IF y.s = -1 THEN Inf(1) ELSE Zero)
        ELSE IF y.s = -1 THEN (IF IsOddIntF(y) THEN Inf(x.s) ELSE Inf(1))
        ELSE (IF IsOddIntF(y) THEN x ELSE Zero))
  ELSE IF y.t = "inf" THEN
       (IF x.t = "fin" /\ x.n = x.d THEN One           \* x == -1
        ELSE IF (x.t = "fin" /\ x.n < x.d) = (y.s = 1) THEN Zero ELSE Inf(1))
  ELSE IF x.t = "inf" THEN
       (IF x.s = 1 THEN (IF y.s = -1 THEN Zero ELSE Inf(1))
        ELSE IF y.s = 1 THEN (IF IsOddIntF(y) THEN Inf(-1) ELSE Inf(1))
        ELSE (IF IsOddIntF(y) THEN Fin(-1, 0, 1) ELSE Zero))
  ELSE IF y.n = 1 /\ y.d = 2 THEN
       (IF y.s = 1 THEN FSqrt(x) ELSE FDiv(One, FSqrt(x)))
  ELSE IF ~IsIntF(y) THEN (IF x.s = -1 THEN NaN ELSE Unrep)
  ELSE IF x.n = x.d THEN Fin(IF y.n % 2 = 1 THEN -1 ELSE 1, 1, 1)   \* x == -1
  ELSE LET p == PowAcc(One, x, y.n)
       IN IF y.s = 1 THEN p ELSE FDiv(One, p)

\* math.Sin, math.Cos, math.Tan, math.Exp, math.Log, math.Abs
FSin(v) == IF v.t \in {"unrep", "nan"} THEN v
           ELSE IF v.t = "inf" THEN NaN
           ELSE IF v.n = 0 THEN v ELSE Unrep
FCos(v) == IF v.t \in {"unrep", "nan"} THEN v
           ELSE IF v.t = "inf" THEN NaN
           ELSE IF v.n = 0 THEN One ELSE Unrep
FTan(v) == FSin(v)
FExp(v) == IF v.t \in {"unrep", "nan"} THEN v
           ELSE IF v.t = "inf" THEN (IF v.s = 1 THEN v ELSE Zero)
           ELSE IF v.n = 0 THEN One ELSE Unrep
FLog(v) == IF v.t \in {"unrep", "nan"} THEN v
           ELSE IF v.t = "inf" THEN (IF v.s = 1 THEN v ELSE NaN)
           ELSE IF v.n = 0 THEN Inf(-1)
           ELSE IF v.s = -1 THEN NaN
           ELSE IF IsOneF(v) THEN Zero ELSE Unrep
FAbs(v) == IF v.t \in {"fin", "inf"} THEN [v EXCEPT !.s = 1] ELSE v

(***************************************************************************)
(* fmt.Sprintf("%g", v): the shortest decimal that reads back as v.  On    *)
(* the exact domain that is the decimal expansion itself (below 10^6 in    *)
(* magnitude and at most four fraction digits, so no exponent form).       *)
(***************************************************************************)
DigitChar(i) == <<"0", "1", "2", "3", "4", "5", "6", "7", "8", "9">>[i + 1]

RECURSIVE Digits(_)
Digits(n) == IF n < 10 THEN <<DigitChar(n)>> ELSE Digits(n \div 10) \o <<DigitChar(n % 10)>>

RECURSIVE FracDigits(_, _)
FracDigits(r, d) ==
  IF r = 0 THEN <<>>
  ELSE <<DigitChar((r * 10) \div d)>> \o FracDigits((r * 10) % d, d)

FormatG(v) ==
  IF v.t = "nan" THEN <<"N", "a", "N">>
  ELSE IF v.t = "inf" THEN <<(IF v.s = 1 THEN "+" ELSE "-"), "I", "n", "f">>
  ELSE IF v.t = "unrep" THEN <<"?">>
  ELSE (IF v.s = -1 THEN <<"-">> ELSE <<>>)
       \o Digits(v.n \div v.d)
       \o (IF v.n % v.d = 0 THEN <<>> ELSE <<".">> \o FracDigits(v.n % v.d, v.d))

(***************************************************************************)
(* Expressions: constExpr, varExpr, binOp, unary, fexpr, and the nil Expr  *)
(* the parser can return.  Names are text.  (Records are written with      *)
(* their fields in alphabetical order throughout.)                         *)
(***************************************************************************)
Nil == [k |-> "nil"]
Number(v) == [k |-> "constExpr", value |-> v]
Symbol(n) == [k |-> "varExpr", name |-> n]
BinOp(op, l, r, prec) == [r |-> r, k |-> "binOp", op |-> op, l |-> l, prec |-> prec]
Unary(op, x) == [k |-> "unary", op |-> op, e |-> x]
Fexpr(name, arg) == [k |-> "fexpr", name |-> name, arg |-> arg]

SinName == <<"s", "i", "n">>
CosName == <<"c", "o", "s">>
TanName == <<"t", "a", "n">>
ExpName == <<"e", "x", "p">>
LnName == <<"l", "n">>
SqrtName == <<"s", "q", "r", "t">>
AbsName == <<"a", "b", "s">>
FuncNames == {SinName, CosName, TanName, ExpName, LnName, SqrtName, AbsName}

Add(a, b) == BinOp("+", a, b, 1)
Sub(a, b) == BinOp("-", a, b, 1)
Mul(a, b) == BinOp("*", a, b, 2)
Div(a, b) == BinOp("/", a, b, 2)
Pow(a, b) == BinOp("^", a, b, 3)
Neg(x) == Unary("-", x)
Sin(x) == Fexpr(SinName, x)
Cos(x) == Fexpr(CosName, x)
Tan(x) == Fexpr(TanName, x)
Exp(x) == Fexpr(ExpName, x)
Ln(x) == Fexpr(LnName, x)
Sqrt(x) == Fexpr(SqrtName, x)
Abs(x) == Fexpr(AbsName, x)
Num(i) == Number(Int2F(i))

\* No nil anywhere in the tree: every method call on it is defined.
RECURSIVE NoNil(_)
NoNil(x) ==
  CASE x.k = "nil" -> FALSE
    [] x.k = "binOp" -> NoNil(x.l) /\ NoNil(x.r)
    [] x.k = "unary" -> NoNil(x.e)
    [] x.k = "fexpr" -> NoNil(x.arg)
    [] OTHER -> TRUE

RECURSIVE Depth(_)
Depth(x) ==
  CASE x.k = "binOp" -> 1 + (IF Depth(x.l) >= Depth(x.r) THEN Depth(x.l) ELSE Depth(x.r))
    [] x.k = "unary" -> 1 + Depth(x.e)
    [] x.k = "fexpr" -> 1 + Depth(x.arg)
    [] OTHER -> 0

(***************************************************************************)
(* String()                                                                *)
(***************************************************************************)
RECURSIVE String(_)
binOpString(b) ==
  LET ls == String(b.l)
      rs == String(b.r)
      lp == IF b.l.k = "binOp" /\ b.l.prec < b.prec THEN <<"(">> \o ls \o <<")">> ELSE ls
      rp == IF b.r.k = "binOp" /\ b.r.prec <= b.prec THEN <<"(">> \o rs \o <<")">> ELSE rs
  IN lp \o <<b.op>> \o rp

unaryString(u) == <<u.op>> \o String(u.e)

fexprString(f) == f.name \o <<"(">> \o String(f.arg) \o <<")">>

String(x) ==
  CASE x.k = "constExpr" -> FormatG(x.value)
    [] x.k = "varExpr" -> x.name
    [] x.k = "binOp" -> binOpString(x)
    [] x.k = "unary" -> unaryString(x)
    [] x.k = "fexpr" -> fexprString(x)
    [] OTHER -> <<>>      \* nil: the call panics; no action prints a tree with nil

(***************************************************************************)
(* Simplify()                                                              *)
(***************************************************************************)
RECURSIVE Simplify(_)

isZero(x) == x.k = "constExpr" /\ IsZeroF(x.value)
isOne(x) == x.k = "constExpr" /\ IsOneF(x.value)

Equal(a, b) == String(Simplify(a)) = String(Simplify(b))

\* sin(u)^2 or cos(u)^2, by name
isSquareOf(x, name) ==
  /\ x.k = "binOp" /\ x.op = "^"
  /\ x.l.k = "fexpr" /\ x.l.name = name
  /\ x.r.k = "constExpr" /\ x.r.value = Int2F(2)

\* isTrigId is called by binOp.Simplify and defined in no file of src/: it is
\* modelled from the specification's trig-identity rule (sin(u)^2 and cos(u)^2
\* of the same argument as the two addends, in either order).
isTrigId(l, r) ==
  \/ isSquareOf(l, SinName) /\ isSquareOf(r, CosName) /\ Equal(l.l.arg, r.l.arg)
  \/ isSquareOf(l, CosName) /\ isSquareOf(r, SinName) /\ Equal(l.l.arg, r.l.arg)

foldConst(op, lv, rv) ==
  CASE op = "+" -> FAdd(lv, rv)
    [] op = "-" -> FSub(lv, rv)
    [] op = "*" -> FMul(lv, rv)
    [] op = "/" -> FDiv(lv, rv)
    [] op = "^" -> FPow(lv, rv)

\* binOp.Simplify, "constant folding": both simplified children are numbers.
canFold(b, l, r) ==
  l.k = "constExpr" /\ r.k = "constExpr" /\ b.op \in {"+", "-", "*", "/", "^"}

\* binOp.Simplify, the switch on b.op: what an identity rule returns, or Nil
\* when none applies and control falls out of the switch.
identityRule(b, l, r) ==
  IF b.op = "+" /\ isZero(l) THEN r
  ELSE IF b.op = "+" /\ isZero(r) THEN l
  ELSE IF b.op = "-" /\ isZero(r) THEN l
  ELSE IF b.op = "-" /\ Equal(l, r) THEN Num(0)
  ELSE IF b.op = "*" /\ (isZero(l) \/ isZero(r)) THEN Num(0)
  ELSE IF b.op = "*" /\ isOne(l) THEN r
  ELSE IF b.op = "*" /\ isOne(r) THEN l
  ELSE IF b.op = "/" /\ isZero(l) THEN Num(0)
  ELSE IF b.op = "/" /\ isOne(r) THEN l
  ELSE IF b.op = "/" /\ Equal(l, r) THEN Num(1)
  ELSE IF b.op = "^" /\ r.k = "constExpr" /\ IsOneF(r.value) THEN l
  ELSE IF b.op = "^" /\ r.k = "constExpr" /\ IsZeroF(r.value) THEN Num(1)
  ELSE Nil

\* binOp.Simplify as it would be if the folding test looked at the children
\* before they are simplified.
binOpSimplifyRawFold(b, l, r) ==
  IF canFold(b, b.l, b.r) THEN Number(foldConst(b.op, l.value, r.value))
  ELSE IF identityRule(b, l, r) # Nil THEN identityRule(b, l, r)
  ELSE IF b.op = "+" /\ isTrigId(l, r) THEN Num(1)
  ELSE BinOp(b.op, l, r, b.prec)

\* binOp.Simplify as it would be if the trig rule were tested on products.
binOpSimplifyTrigOnMul(b, l, r) ==
  IF canFold(b, l, r) THEN Number(foldConst(b.op, l.value, r.value))
  ELSE IF identityRule(b, l, r) # Nil THEN identityRule(b, l, r)
  ELSE IF b.op = "*" /\ isTrigId(l, r) THEN Num(1)
  ELSE BinOp(b.op, l, r, b.prec)

\* binOp.Simplify as it would be if the rebuilt node had its children exchanged.
binOpSimplifySwap(b, l, r) ==
  IF canFold(b, l, r) THEN Number(foldConst(b.op, l.value, r.value))
  ELSE IF identityRule(b, l, r) # Nil THEN identityRule(b, l, r)
  ELSE IF b.op = "+" /\ isTrigId(l, r) THEN Num(1)
  ELSE BinOp(b.op, r, l, b.prec)

\* binOp.Simplify after its first line: b is the node, l and r its simplified
\* children.
binOpSimplify(b, l, r) ==
  IF canFold(b, l, r) THEN Number(foldConst(b.op, l.value, r.value))
  ELSE IF identityRule(b, l, r) # Nil THEN identityRule(b, l, r)
  ELSE IF b.op = "+" /\ isTrigId(l, r) THEN Num(1)
  ELSE BinOp(b.op, l, r, b.prec)

unarySimplify(u, a) == Neg(a)

\* fexpr.Simplify after its first line: a is the simplified argument.
fexprSimplify(f, a) ==
  IF a.k = "constExpr" /\ f.name = SinName THEN Number(FSin(a.value))
  ELSE IF a.k = "constExpr" /\ f.name = CosName THEN Number(FCos(a.value))
  ELSE IF a.k = "constExpr" /\ f.name = TanName THEN Number(FTan(a.value))
  ELSE IF a.k = "constExpr" /\ f.name = ExpName THEN Number(FExp(a.value))
  ELSE IF a.k = "constExpr" /\ f.name = LnName /\ IsPosF(a.value) THEN Number(FLog(a.value))
  ELSE IF a.k = "constExpr" /\ f.name = SqrtName /\ IsNonNegF(a.value) THEN Number(FSqrt(a.value))
  ELSE IF a.k = "constExpr" /\ f.name = AbsName THEN Number(FAbs(a.value))
  ELSE Fexpr(f.name, a)

Simplify(x) ==
  CASE x.k = "binOp" -> binOpSimplify(x, Simplify(x.l), Simplify(x.r))
    [] x.k = "unary" -> unarySimplify(x, Simplify(x.e))
    [] x.k = "fexpr" -> fexprSimplify(x, Simplify(x.arg))
    [] OTHER -> x

(***************************************************************************)
(* Diff(sym) and Subst(old, new)                                           *)
(***************************************************************************)
RECURSIVE Diff(_, _)

varExprDiff(v, sym) ==
  IF sym.k = "varExpr" /\ sym.name = v.name THEN Num(1) ELSE Num(0)

binOpDiff(b, sym) ==
  LET ld == Diff(b.l, sym)
      rd == Diff(b.r, sym)
  IN CASE b.op = "+" -> Add(ld, rd)
       [] b.op = "-" -> Sub(ld, rd)
       [] b.op = "*" -> Add(Mul(ld, b.r), Mul(b.l, rd))
       [] b.op = "/" -> Div(Sub(Mul(ld, b.r), Mul(b.l, rd)), Pow(b.r, Num(2)))
       [] b.op = "^" -> Mul(b, Add(Mul(rd, Ln(b.l)), Mul(b.r, Div(ld, b.l))))
       [] OTHER -> Num(0)

fexprDiff(f, sym) ==
  LET d == Diff(f.arg, sym)
  IN CASE f.name = SinName -> Mul(Cos(f.arg), d)
       [] f.name = CosName -> Neg(Mul(Sin(f.arg), d))
       [] f.name = TanName -> Mul(Add(Num(1), Pow(Tan(f.arg), Num(2))), d)
       [] f.name = ExpName -> Mul(Exp(f.arg), d)
       [] f.name = LnName -> Div(d, f.arg)
       [] f.name = SqrtName -> Mul(Number(Fin(1, 1, 2)), Div(d, f))
       [] OTHER -> Num(0)

Diff(x, sym) ==
  CASE x.k = "constExpr" -> Num(0)
    [] x.k = "varExpr" -> varExprDiff(x, sym)
    [] x.k = "binOp" -> binOpDiff(x, sym)
    [] x.k = "unary" -> Neg(Diff(x.e, sym))
    [] x.k = "fexpr" -> fexprDiff(x, sym)

RECURSIVE Subst(_, _, _)

varExprSubst(v, old, new) ==
  IF old.k = "varExpr" /\ old.name = v.name THEN new ELSE v

binOpSubst(b, old, new) == BinOp(b.op, Subst(b.l, old, new), Subst(b.r, old, new), b.prec)

Subst(x, old, new) ==
  CASE x.k = "constExpr" -> x
    [] x.k = "varExpr" -> varExprSubst(x, old, new)
    [] x.k = "binOp" -> binOpSubst(x, old, new)
    [] x.k = "unary" -> Unary(x.op, Subst(x.e, old, new))
    [] x.k = "fexpr" -> Fexpr(x.name, Subst(x.arg, old, new))

(***************************************************************************)
(* Parser.  Each parse function takes the remaining text and returns the   *)
(* expression with the text left (the code advances *s in place).          *)
(***************************************************************************)
DigitChars == {"0", "1", "2", "3", "4", "5", "6", "7", "8", "9"}
LetterChars == {"a", "b", "c", "d", "e", "f", "g", "h", "i", "j", "k", "l", "m",
                "n", "o", "p", "q", "r", "s", "t", "u", "v", "w", "x", "y", "z"}
IsDigit(c) == c \in DigitChars
IsLetter(c) == c \in LetterChars
DigitVal(c) == CHOOSE i \in 0..9 : DigitChar(i) = c

\* strings.ReplaceAll(s, " ", "")
RECURSIVE StripSpaces(_)
StripSpaces(s) ==
  IF s = <<>> THEN <<>>
  ELSE IF Head(s) = " " THEN StripSpaces(Tail(s))
  ELSE <<Head(s)>> \o StripSpaces(Tail(s))

\* The longest prefix of s whose characters are all in cs.
RECURSIVE TakeWhile(_, _)
TakeWhile(s, cs) ==
  IF s = <<>> \/ Head(s) \notin cs THEN <<>>
  ELSE <<Head(s)>> \o TakeWhile(Tail(s), cs)

Drop(s, n) == SubSeq(s, n + 1, Len(s))

RECURSIVE DigitsVal(_, _)
DigitsVal(ds, acc) ==
  IF ds = <<>> THEN acc ELSE DigitsVal(Tail(ds), acc * 10 + DigitVal(Head(ds)))

RECURSIVE Pow10(_)
Pow10(k) == IF k = 0 THEN 1 ELSE 10 * Pow10(k - 1)

\* v, _ := strconv.ParseFloat(n, 64), for n of digits and dots: on a syntax
\* error (no digit, or a second dot) the error is dropped and v is 0.
parseFloatOrZero(n) ==
  LET ip == TakeWhile(n, DigitChars)
      rest == Drop(n, Len(ip))
      fp == IF rest # <<>> THEN TakeWhile(Tail(rest), DigitChars) ELSE <<>>
      ok == /\ Len(ip) + Len(fp) > 0
            /\ Len(ip) + Len(fp) + (IF rest # <<>> THEN 1 ELSE 0) = Len(n)
  IN IF ok
     THEN MkFin(1, DigitsVal(ip \o fp, 0), Pow10(Len(fp)))
     ELSE Zero

parseNum(s) ==
  LET n == TakeWhile(s, DigitChars \cup {"."})
  IN [s |-> Drop(s, Len(n)), e |-> Number(parseFloatOrZero(n))]

RECURSIVE parseExpr(_)
RECURSIVE parseAtom(_)

\* math.Pi and math.E are outside the exact domain.
parseId(s) ==
  LET id == TakeWhile(s, LetterChars)
      s1 == Drop(s, Len(id))
  IN IF id = <<"p", "i">> \/ id = <<"e">> THEN [s |-> s1, e |-> Number(Unrep)]
     ELSE IF s1 # <<>> /\ Head(s1) = "("
     THEN LET a == parseExpr(Tail(s1))
              s2 == IF a.s # <<>> /\ Head(a.s) = ")" THEN Tail(a.s) ELSE a.s
          IN IF id \in FuncNames THEN [s |-> s2, e |-> Fexpr(id, a.e)]
             ELSE [s |-> s2, e |-> Symbol(id)]
     ELSE [s |-> s1, e |-> Symbol(id)]

parseAtom(s) ==
  IF s = <<>> THEN [s |-> s, e |-> Nil]
  ELSE IF IsDigit(Head(s)) \/ Head(s) = "." THEN parseNum(s)
  ELSE IF IsLetter(Head(s)) THEN parseId(s)
  ELSE IF Head(s) = "("
  THEN LET a == parseExpr(Tail(s))
       IN [s |-> IF a.s # <<>> /\ Head(a.s) = ")" THEN Tail(a.s) ELSE a.s, e |-> a.e]
  ELSE IF Head(s) = "-"
  THEN LET a == parseAtom(Tail(s)) IN [s |-> a.s, e |-> Neg(a.e)]
  ELSE [s |-> s, e |-> Nil]

parsePow(s) ==
  LET a == parseAtom(s)
  IN IF a.s # <<>> /\ Head(a.s) = "^"
     THEN LET b == parseAtom(Tail(a.s)) IN [s |-> b.s, e |-> Pow(a.e, b.e)]
     ELSE a

\* the for loop of parseMul, entered with e parsed and s left
RECURSIVE parseMulLoop(_, _)
parseMulLoop(x, s) ==
  IF s # <<>> /\ Head(s) \in {"*", "/"}
  THEN LET t == parsePow(Tail(s))
       IN parseMulLoop(IF Head(s) = "*" THEN Mul(x, t.e) ELSE Div(x, t.e), t.s)
  ELSE [s |-> s, e |-> x]

parseMul(s) == LET a == parsePow(s) IN parseMulLoop(a.e, a.s)

\* the for loop of parseAddSub
RECURSIVE parseAddSubLoop(_, _)
parseAddSubLoop(x, s) ==
  IF s # <<>> /\ Head(s) \in {"+", "-"}
  THEN LET t == parseMul(Tail(s))
       IN parseAddSubLoop(IF Head(s) = "+" THEN Add(x, t.e) ELSE Sub(x, t.e), t.s)
  ELSE [s |-> s, e |-> x]

parseAddSub(s) == LET a == parseMul(s) IN parseAddSubLoop(a.e, a.s)

parseExpr(s) == parseAddSub(s)

Parse(s) == parseExpr(StripSpaces(s)).e

(***************************************************************************)
(* The caller.  e is the expression the caller holds; last records the     *)
(* last library call and what it returned; pc, prev and passes are the     *)
(* position, local variable and pass count of a running SimplifyDeep.      *)
(***************************************************************************)
VARIABLES e, last, pc, prev, passes

vars == <<e, last, pc, prev, passes>>

SymX == Symbol(<<"x">>)
SymY == Symbol(<<"y">>)
Symbols == {SymX, SymY}
Leaves == {Num(i) : i \in 0..MaxNum} \cup Symbols

\* Every constant the simplifier computes inside x is in the exact domain.
RECURSIVE Computable(_)
Computable(x) ==
  /\ CASE x.k = "binOp" -> Computable(x.l) /\ Computable(x.r)
       [] x.k = "unary" -> Computable(x.e)
       [] x.k = "fexpr" -> Computable(x.arg)
       [] x.k = "constExpr" -> x.value.t # "unrep"
       [] OTHER -> TRUE
  /\ LET sx == Simplify(x) IN ~(sx.k = "constExpr" /\ sx.value.t = "unrep")

\* Texts handed to Parse: the test's, the README's, and malformed ones.
TextSum == <<"x", "^", "2", " ", "+", " ", "3", "*", "x">>
TextComposite ==
  <<"x", "^", "2", " ", "+", " ", "s", "i", "n", "(", "x", ")", "^", "2", " ", "+", " ",
    "c", "o", "s", "(", "x", ")", "^", "2", " ", "-", " ", "5">>
TextUnmatched == <<"(", "2", "+", "3">>
TextTrailingOp == <<"x", "+">>
TextUnknownChar == <<"?", "x">>
TextBadNumber == <<"1", ".", "2", ".", "3">>
TextTrailing == <<"x", ")", "y">>
TextProduct == <<"2", "*", "(", "x", "+", "1", ")", "/", "y">>
TextNegPow == <<"-", "x", "^", "2", "-", "a", "b", "s", "(", "y", ")">>
MalformedInputs == {TextUnmatched, TextTrailingOp, TextUnknownChar, TextBadNumber, TextTrailing}
Inputs == {TextSum, TextComposite, TextProduct, TextNegPow} \cup MalformedInputs

NoLast == [op |-> "none", sym |-> Nil, res |-> Nil, text |-> <<>>, val |-> Nil]
Called(op, text, sym, val, res) ==
  [op |-> op, sym |-> sym, res |-> res, text |-> text, val |-> val]

Init ==
  /\ e \in Leaves
  /\ last = NoLast
  /\ pc = "idle"
  /\ prev = Nil
  /\ passes = 0

\* The expression held has not been handed to a library call yet.
Fresh == pc = "idle" /\ last.op \in {"none", "Parse"}

\* The caller holds a new expression.
Holds(new) ==
  /\ Fresh
  /\ e' = new
  /\ last' = NoLast
  /\ passes' = 0
  /\ UNCHANGED <<pc, prev>>

\* The caller wraps the expression it holds in one more constructor.
Combine(new) ==
  /\ Fresh /\ NoNil(e)
  /\ Depth(new) <= MaxDepth
  /\ Computable(new)
  /\ Holds(new)

Operands == Leaves \cup {e}

CallNumber == \E i \in 0..MaxNum : Holds(Num(i))
CallSymbol == \E v \in Symbols : Holds(v)
CallAdd == \E o \in Operands : \E new \in {Add(e, o), Add(o, e)} : Combine(new)
CallSub == \E o \in Operands : \E new \in {Sub(e, o), Sub(o, e)} : Combine(new)
CallMul == \E o \in Operands : \E new \in {Mul(e, o), Mul(o, e)} : Combine(new)
CallDiv == \E o \in Operands : \E new \in {Div(e, o), Div(o, e)} : Combine(new)
CallPow == \E o \in Operands : \E new \in {Pow(e, o), Pow(o, e)} : Combine(new)
CallNeg == Combine(Neg(e))
CallFunc == \E name \in FuncNames : Combine(Fexpr(name, e))

\* The construction of TestSimplify and of the README, with the expression
\* held as the argument of sin and v as the argument of cos.
TrigSum(u, v) == Add(Pow(Sin(u), Num(2)), Pow(Cos(v), Num(2)))
BuildTrigSum ==
  /\ Fresh /\ NoNil(e) /\ Depth(e) < MaxDepth
  /\ \E v \in Operands : Computable(TrigSum(e, v)) /\ Holds(TrigSum(e, v))

\* The tree the parser builds for "t + sin(u)^2 + cos(u)^2" (README), with
\* the expression held as u.
TrigChain(t, u) == Add(Add(t, Pow(Sin(u), Num(2))), Pow(Cos(u), Num(2)))
BuildTrigChain ==
  /\ Fresh /\ NoNil(e) /\ Depth(e) < MaxDepth
  /\ \E t \in Leaves : Computable(TrigChain(t, e)) /\ Holds(TrigChain(t, e))

DoParse ==
  /\ Fresh
  /\ \E text \in Inputs :
       /\ e' = Parse(text)
       /\ last' = Called("Parse", text, Nil, Nil, Parse(text))
  /\ passes' = 0
  /\ UNCHANGED <<pc, prev>>

\* Parse(e.String())
DoReparse ==
  /\ Fresh /\ NoNil(e)
  /\ last' = Called("Reparse", String(e), Nil, Nil, Parse(String(e)))
  /\ UNCHANGED <<e, pc, prev, passes>>

DoSimplify ==
  /\ Fresh /\ NoNil(e)
  /\ last' = Called("Simplify", <<>>, Nil, Nil, Simplify(e))
  /\ UNCHANGED <<e, pc, prev, passes>>

DoDiff ==
  /\ Fresh /\ NoNil(e)
  /\ \E sym \in Symbols : last' = Called("Diff", <<>>, sym, Nil, Diff(e, sym))
  /\ UNCHANGED <<e, pc, prev, passes>>

DoSubst ==
  /\ Fresh /\ NoNil(e)
  /\ \E old \in Symbols : \E new \in Leaves :
       last' = Called("Subst", <<>>, old, new, Subst(e, old, new))
  /\ UNCHANGED <<e, pc, prev, passes>>

\* SimplifyDeep: prev := e
DeepStart ==
  /\ Fresh /\ NoNil(e)
  /\ pc' = "deep"
  /\ prev' = e
  /\ passes' = 0
  /\ last' = NoLast
  /\ UNCHANGED e

\* SimplifyDeep: one iteration of the for loop
DeepStep ==
  /\ pc = "deep"
  /\ passes < MaxPasses
  /\ LET next == Simplify(prev)
     IN IF String(next) = String(prev)
        THEN /\ pc' = "idle"
             /\ last' = Called("SimplifyDeep", <<>>, Nil, Nil, next)
             /\ prev' = Nil
        ELSE /\ prev' = next
             /\ UNCHANGED <<pc, last>>
  /\ passes' = passes + 1
  /\ UNCHANGED e

\* A method called on a tree that holds a nil Expr: nil pointer dereference.
Panic ==
  /\ pc = "idle" /\ ~NoNil(e)
  /\ pc' = "panic"
  /\ UNCHANGED <<e, last, prev, passes>>

Next ==
  \/ CallNumber \/ CallSymbol
  \/ CallAdd \/ CallSub \/ CallMul \/ CallDiv \/ CallPow \/ CallNeg \/ CallFunc
  \/ BuildTrigSum \/ BuildTrigChain
  \/ DoParse \/ DoReparse \/ DoSimplify \/ DoDiff \/ DoSubst
  \/ DeepStart \/ DeepStep
  \/ Panic

Spec == Init /\ [][Next]_vars

(***************************************************************************)
(* Properties                                                              *)
(***************************************************************************)
IsConst(x) == x.k = "constExpr"

\* x is Add(Pow(Sin(u), 2), Pow(Cos(v), 2))
IsTrigSum(x) ==
  /\ x.k = "binOp" /\ x.op = "+"
  /\ isSquareOf(x.l, SinName) /\ isSquareOf(x.r, CosName)

\* x is Add(Add(t, Pow(Sin(u), 2)), Pow(Cos(u), 2))
IsTrigChain(x) ==
  /\ x.k = "binOp" /\ x.op = "+"
  /\ x.l.k = "binOp" /\ x.l.op = "+"
  /\ isSquareOf(x.l.r, SinName) /\ isSquareOf(x.r, CosName)
  /\ x.l.r.l.arg = x.r.l.arg

\* x is built from non-negative integer Numbers, Symbols, the five binary
\* constructors and Neg.
RECURSIVE PlainTree(_)
PlainTree(x) ==
  CASE x.k = "constExpr" -> IsIntF(x.value) /\ x.value.s = 1
    [] x.k = "varExpr" -> TRUE
    [] x.k = "binOp" -> PlainTree(x.l) /\ PlainTree(x.r)
    [] x.k = "unary" -> PlainTree(x.e)
    [] OTHER -> FALSE

\* C1: Simplify is idempotent: what Simplify returns prints the same after
\* a second Simplify.
C1_SimplifyIdempotent ==
  last.op = "Simplify" => String(Simplify(last.res)) = String(last.res)

\* A nested expression whose simplification changed it and left a binary node.
C1_Witness ==
  /\ last.op = "Simplify" /\ Depth(e) = MaxDepth
  /\ last.res # e /\ last.res.k = "binOp"

\* C2: Add(a,b) and Add(b,a), and Mul(a,b) and Mul(b,a), print the same after
\* Simplify.
C2_OrderDeterministic ==
  (last.op = "Simplify" /\ e.k = "binOp" /\ e.op \in {"+", "*"})
    => String(last.res) = String(Simplify(BinOp(e.op, e.r, e.l, e.prec)))

\* C3: the derivative of Pow(x, Number(n)) by x simplifies to the power rule
\* n * x^(n-1) (for n = 2, "2*x"), with no ln term and no division.
C3_PowerRule ==
  (/\ last.op = "Diff" /\ e.k = "binOp" /\ e.op = "^"
   /\ e.l = last.sym /\ IsConst(e.r) /\ IsIntF(e.r.value) /\ e.r.value.s = 1 /\ e.r.value.n >= 2)
    => String(Simplify(last.res))
         = String(Simplify(Mul(e.r, Pow(e.l, Number(FSub(e.r.value, One))))))

C5_CompositeSimplifies ==
  (last.op = "Simplify" /\ e = Parse(TextComposite))
    => String(last.res) = <<"x", "^", "2", " ", "-", " ", "4">>

\* C6: Parse("x^2 + 3*x") prints back as "x^2 + 3*x".
C6_ParsePrintsBack ==
  (last.op = "Parse" /\ last.text = TextSum) => String(last.res) = TextSum

\* C7: Parse answers malformed input with a ParseError, never with a value.
C7_MalformedRejected ==
  (last.op = "Parse" /\ last.text \in MalformedInputs) => last.res.k = "ParseError"

\* C8: Subst returns a simplified tree: the result prints the same as its own
\* Simplify, and 2 for x in x^2 gives the number 4.
C8_SubstSimplified ==
  last.op = "Subst" =>
    /\ String(last.res) = String(Simplify(last.res))
    /\ (e = Pow(SymX, Num(2)) /\ last.sym = SymX /\ last.val = Num(2)) => last.res = Num(4)

\* C9: SimplifyDeep terminates: its loop is never about to make a third pass
\* (after one pass that changed the print, the next one leaves), and what it
\* returns is a fixpoint of Simplify up to printing.
C9_DeepTerminates ==
  /\ pc = "deep" => passes <= 1
  /\ last.op = "SimplifyDeep" => String(Simplify(last.res)) = String(last.res)

\* SimplifyDeep has returned after a pass that changed the expression.
C9_Witness ==
  /\ pc = "idle" /\ last.op = "SimplifyDeep" /\ passes = 2
  /\ String(last.res) # String(e)

\* C10: for a tree of non-negative integer Numbers, Symbols, binary operators
\* and Neg, parsing its printed form gives the tree back.
C10_PrintParsesBack ==
  (last.op = "Reparse" /\ PlainTree(e)) => last.res = e

=============================================================================
